---------------------------- MODULE Spec2Model ----------------------------
(***************************************************************************)
(* A model of the programs of the repository:                              *)
(*   - the AVL tree of "src/AVL Tree/avl.c" (insert_node, delete_node,     *)
(*     the rotations, the cached heights, inorder);                        *)
(*   - the separate-chaining hash table of "src/Hash Table/hash.cpp"       *)
(*     (hash, insert, resize, find, erase, size);                          *)
(*   - avl.c once more with its nodes in memory (malloc, free, free_tree); *)
(*   - bfs_graph of "src/graph.c".                                         *)
(* A tree node is the tuple <<val, left, right, height>>, the null pointer *)
(* is the empty tuple.  The bucket array table_ is a sequence of chains,   *)
(* bucket index i of the code is position i + 1, and a chain is the        *)
(* sequence of the data fields from the head node on.                      *)
(***************************************************************************)
EXTENDS Integers, Sequences, FiniteSets

\* ------------------------------------------------------------------ bounds

\* Keys offered to the tree are 1..MaxVal.
MaxVal == 8

Vals == 1 .. MaxVal

\* insert is offered to the hash table while it holds fewer than MaxSize elements.
MaxSize == 12

\* The values offered to the hash table: with 10 buckets both lie in bucket 1,
\* with 20 buckets both in bucket 11, with 40 buckets in buckets 31 and 11; with
\* 12 buckets they lie in buckets 3 and 11, with 13 buckets in buckets 4 and 11.
HVals == {-9, 11}

\* The capacities asked of the constructor: one below the minimum of 10, an
\* even and an odd one above it.
InitCaps == {0, 12, 13}

\* hash is applied to the values -FRange .. FRange (and to two values at the ends
\* of the range of int) for the capacities a constructor asked for 0 .. FCapMax buckets leaves.
FRange == 40

FCapMax == 16

FData == (-FRange .. FRange) \cup {-2147483647, 2147483647}

FCaps == 0 .. FCapMax

\* main of avl.c makes ScInserts calls of insert_node, then one of delete_node;
\* the values of the calls are drawn from ScVals (main's 10, 20, 30, 40 and one
\* more).
ScInserts == 4

ScVals == {10, 20, 30, 40, 50}

\* The graphs handed to bfs_graph have the nodes GNodes and at most MaxEdges
\* neighbour entries in all (repeated entries and self-loops included).
MaxEdges == 5

GNodes == {1, 2, 3}

\* The pointer-level run of avl.c makes at most MaxAlloc calls of malloc, for the
\* keys 1 .. PMaxVal.
MaxAlloc == 5

PMaxVal == 5

PVals == 1 .. PMaxVal

\* ---------------------------------------------------------------- AVL tree

VARIABLES
    root,     \* main's root pointer: the tree
    keys,     \* reference set: the same inserts and deletes applied to a set
    t_op,     \* the last call: "init", "insert" or "delete"
    t_val,    \* its argument
    t_prev,   \* root before the last call
    size_,    \* HashTable::size_
    table_,   \* HashTable::table_
    cap_req,  \* the capacity the constructor was asked for
    ref,      \* reference multiset: value -> inserts minus erases made while present
    h_op,     \* the last call on the table: "init", "insert", "find" or "erase"
    h_arg,    \* its argument
    h_ret,    \* what the last find returned
    h_table,  \* table_ before the last call
    h_size    \* size_ before the last call

Nil == <<>>

Mk(v, l, r, h) == <<v, l, r, h>>

Val(n) == n[1]

Left(n) == n[2]

Right(n) == n[3]

Ht(n) == n[4]

max_int(a, b) == IF a > b THEN a ELSE b

height_node(node) == IF node # Nil THEN Ht(node) ELSE 0

get_balance(node) ==
    IF node # Nil THEN height_node(Left(node)) - height_node(Right(node)) ELSE 0

update_height(node) ==
    IF node # Nil
    THEN Mk(Val(node), Left(node), Right(node),
            1 + max_int(height_node(Left(node)), height_node(Right(node))))
    ELSE node

\* right_rotate with the two update_height calls swapped: the new root's height
\* is computed from the stale height of the node moved below it.
right_rotate_stale(node) ==
    LET r0 == Left(node)
        node_left == Right(r0)
        node0 == Mk(Val(node), node_left, Right(node), Ht(node))
        root1 == update_height(Mk(Val(r0), Left(r0), node0, Ht(r0)))
    IN  Mk(Val(root1), Left(root1), update_height(node0), Ht(root1))

right_rotate(node) ==
    LET r0 == Left(node)
        node_left == Right(r0)
        node1 == update_height(Mk(Val(node), node_left, Right(node), Ht(node)))
    IN  update_height(Mk(Val(r0), Left(r0), node1, Ht(r0)))

left_rotate(node) ==
    LET r0 == Right(node)
        node_right == Left(r0)
        node1 == update_height(Mk(Val(node), Left(node), node_right, Ht(node)))
    IN  update_height(Mk(Val(r0), node1, Right(r0), Ht(r0)))

\* find_successor without its loop: the right child itself is taken.
find_successor_noloop(node) == node

RECURSIVE find_successor(_)
find_successor(node) ==
    IF node # Nil /\ Left(node) # Nil THEN find_successor(Left(node)) ELSE node

\* Which of the rebalancing cases of insert_node fires at node, named after the
\* rotation the code calls on node (after the rotation of the child, in the two
\* mixed cases), or "none".
insert_case(node, val) ==
    LET balance == get_balance(node)
    IN  IF balance > 1 /\ val < Val(Left(node)) THEN "right_rotate"
        ELSE IF balance < -1 /\ val > Val(Right(node)) THEN "left_rotate"
        ELSE IF balance > 1 /\ val > Val(Left(node)) THEN "left_then_right_rotate"
        ELSE IF balance < -1 /\ val < Val(Right(node)) THEN "right_then_left_rotate"
        ELSE "none"

\* insert_node's cases with the rotation of the child left out of the two
\* mixed cases.
insert_rebalance_single_only(node, val) ==
    LET balance == get_balance(node)
    IN  IF balance > 1 /\ val < Val(Left(node)) THEN right_rotate(node)
        ELSE IF balance < -1 /\ val > Val(Right(node)) THEN left_rotate(node)
        ELSE IF balance > 1 /\ val > Val(Left(node)) THEN right_rotate(node)
        ELSE IF balance < -1 /\ val < Val(Right(node)) THEN left_rotate(node)
        ELSE node

\* insert_node's cases with the thresholds one too far (balance > 2, balance < -2).
insert_rebalance_late(node, val) ==
    LET balance == get_balance(node)
    IN  IF balance > 2 /\ val < Val(Left(node)) THEN right_rotate(node)
        ELSE IF balance < -2 /\ val > Val(Right(node)) THEN left_rotate(node)
        ELSE IF balance > 2 /\ val > Val(Left(node))
        THEN right_rotate(Mk(Val(node), left_rotate(Left(node)), Right(node), Ht(node)))
        ELSE IF balance < -2 /\ val < Val(Right(node))
        THEN left_rotate(Mk(Val(node), Left(node), right_rotate(Right(node)), Ht(node)))
        ELSE node

\* The four rebalancing cases of insert_node, tried in the order of the code.
insert_rebalance(node, val) ==
    LET balance == get_balance(node)
    IN  IF balance > 1 /\ val < Val(Left(node)) THEN right_rotate(node)
        ELSE IF balance < -1 /\ val > Val(Right(node)) THEN left_rotate(node)
        ELSE IF balance > 1 /\ val > Val(Left(node))
        THEN right_rotate(Mk(Val(node), left_rotate(Left(node)), Right(node), Ht(node)))
        ELSE IF balance < -1 /\ val < Val(Right(node))
        THEN left_rotate(Mk(Val(node), Left(node), right_rotate(Right(node)), Ht(node)))
        ELSE node

\* The nodes insert_node(node, val) hands to its rebalancing cases, from node
\* down the search path: each with the child replaced by the result of the
\* recursive call and the height updated.
RECURSIVE insert_path(_, _)

\* insert_node with >= for >: an equal value goes to the right subtree.
RECURSIVE insert_node_equal_goes_right(_, _)
insert_node_equal_goes_right(node, val) ==
    IF node = Nil THEN Mk(val, Nil, Nil, 1)
    ELSE IF val < Val(node)
    THEN insert_rebalance(
             update_height(Mk(Val(node), insert_node_equal_goes_right(Left(node), val),
                              Right(node), Ht(node))),
             val)
    ELSE insert_rebalance(
             update_height(Mk(Val(node), Left(node),
                              insert_node_equal_goes_right(Right(node), val), Ht(node))),
             val)

RECURSIVE insert_node(_, _)
insert_node(node, val) ==
    IF node = Nil THEN Mk(val, Nil, Nil, 1)
    ELSE IF val < Val(node)
    THEN insert_rebalance(
             update_height(Mk(Val(node), insert_node(Left(node), val), Right(node), Ht(node))),
             val)
    ELSE IF val > Val(node)
    THEN insert_rebalance(
             update_height(Mk(Val(node), Left(node), insert_node(Right(node), val), Ht(node))),
             val)
    ELSE node

insert_path(node, val) ==
    IF node = Nil THEN <<>>
    ELSE IF val < Val(node)
    THEN <<update_height(Mk(Val(node), insert_node(Left(node), val), Right(node), Ht(node)))>>
         \o insert_path(Left(node), val)
    ELSE IF val > Val(node)
    THEN <<update_height(Mk(Val(node), Left(node), insert_node(Right(node), val), Ht(node)))>>
         \o insert_path(Right(node), val)
    ELSE <<>>

\* delete_node's cases with the ties left out (> 0 and < 0 for the single
\* rotations): a heavy child of balance 0 is not rotated at all.
delete_rebalance_noties(node) ==
    LET balance == get_balance(node)
    IN  IF balance > 1 /\ get_balance(Left(node)) > 0 THEN right_rotate(node)
        ELSE IF balance < -1 /\ get_balance(Right(node)) < 0 THEN left_rotate(node)
        ELSE IF balance > 1 /\ get_balance(Left(node)) < 0
        THEN right_rotate(Mk(Val(node), left_rotate(Left(node)), Right(node), Ht(node)))
        ELSE IF balance < -1 /\ get_balance(Right(node)) > 0
        THEN left_rotate(Mk(Val(node), Left(node), right_rotate(Right(node)), Ht(node)))
        ELSE node

\* delete_node's cases with the thresholds one too low (balance > 0, balance < 0).
delete_rebalance_eager(node) ==
    LET balance == get_balance(node)
    IN  IF balance > 0 /\ get_balance(Left(node)) >= 0 THEN right_rotate(node)
        ELSE IF balance < 0 /\ get_balance(Right(node)) <= 0 THEN left_rotate(node)
        ELSE IF balance > 0 /\ get_balance(Left(node)) < 0
        THEN right_rotate(Mk(Val(node), left_rotate(Left(node)), Right(node), Ht(node)))
        ELSE IF balance < 0 /\ get_balance(Right(node)) > 0
        THEN left_rotate(Mk(Val(node), Left(node), right_rotate(Right(node)), Ht(node)))
        ELSE node

\* The four rebalancing cases of delete_node, tried in the order of the code.
delete_rebalance(node) ==
    LET balance == get_balance(node)
    IN  IF balance > 1 /\ get_balance(Left(node)) >= 0 THEN right_rotate(node)
        ELSE IF balance < -1 /\ get_balance(Right(node)) <= 0 THEN left_rotate(node)
        ELSE IF balance > 1 /\ get_balance(Left(node)) < 0
        THEN right_rotate(Mk(Val(node), left_rotate(Left(node)), Right(node), Ht(node)))
        ELSE IF balance < -1 /\ get_balance(Right(node)) > 0
        THEN left_rotate(Mk(Val(node), Left(node), right_rotate(Right(node)), Ht(node)))
        ELSE node

\* delete_node that, after copying the successor's value up, deletes val and
\* not the successor's value from the right subtree.
RECURSIVE delete_node_keeps_successor(_, _)
delete_node_keeps_successor(node, val) ==
    IF node = Nil THEN Nil
    ELSE IF val < Val(node)
    THEN delete_rebalance(
             update_height(Mk(Val(node), delete_node_keeps_successor(Left(node), val),
                              Right(node), Ht(node))))
    ELSE IF val > Val(node)
    THEN delete_rebalance(
             update_height(Mk(Val(node), Left(node),
                              delete_node_keeps_successor(Right(node), val), Ht(node))))
    ELSE IF Left(node) = Nil THEN Right(node)
    ELSE IF Right(node) = Nil THEN Left(node)
    ELSE LET temp == find_successor(Right(node))
         IN  delete_rebalance(
                 update_height(Mk(Val(temp), Left(node),
                                  delete_node_keeps_successor(Right(node), val), Ht(node))))

RECURSIVE delete_node(_, _)
delete_node(node, val) ==
    IF node = Nil THEN Nil
    ELSE IF val < Val(node)
    THEN delete_rebalance(
             update_height(Mk(Val(node), delete_node(Left(node), val), Right(node), Ht(node))))
    ELSE IF val > Val(node)
    THEN delete_rebalance(
             update_height(Mk(Val(node), Left(node), delete_node(Right(node), val), Ht(node))))
    ELSE IF Left(node) = Nil THEN Right(node)
    ELSE IF Right(node) = Nil THEN Left(node)
    ELSE LET temp == find_successor(Right(node))
         IN  delete_rebalance(
                 update_height(Mk(Val(temp), Left(node),
                                  delete_node(Right(node), Val(temp)), Ht(node))))

\* The values in the order inorder hands them to visit.
RECURSIVE inorder(_)
inorder(node) ==
    IF node # Nil
    THEN inorder(Left(node)) \o <<Val(node)>> \o inorder(Right(node))
    ELSE <<>>

\* -------------------------------------------------------------- hash table

\* The % of C++ on int: the quotient is truncated towards zero, so the
\* remainder has the sign of the dividend.
CRem(a, b) == IF a >= 0 THEN a % b ELSE -((-a) % b)

\* hash without the adjustment of a negative remainder.
hash_raw_remainder(data, K) == CRem(data, K)

hash(data, K) ==
    LET idx == CRem(data, K)
    IN  IF idx < 0 THEN idx + K ELSE idx

\* The load check without the cast to double: size_ / K is an integer division.
load_exceeded_int_division(size, table) == 2 * (size \div Len(table)) > 1

\* The load check with >= for >.
load_exceeded_ge(size, table) == 2 * size >= Len(table)

\* get_balance_factor() > 0.5: (double)size_ / K exceeds 0.5 exactly when
\* 2 * size_ > K (0.5 is a double, and the quotients differ from it by far more
\* than a rounding step).
load_exceeded(size, table) == 2 * size > Len(table)

\* The private insert(data, table): push-front into the chain of data's bucket.
insert_bucket(data, table) ==
    LET idx == hash(data, Len(table))
    IN  [table EXCEPT ![idx + 1] = <<data>> \o @]

\* The loop of resize hashing with the old capacity (table_.size()) instead of
\* new_size.
RECURSIVE rewire_chain_old_capacity(_, _)
rewire_chain_old_capacity(chain, new_table) ==
    IF chain = <<>> THEN new_table
    ELSE LET n == Head(chain)
             idx == hash(n, Len(new_table) \div 2)
         IN  rewire_chain_old_capacity(Tail(chain),
                                       [new_table EXCEPT ![idx + 1] = <<n>> \o @])

\* The while loop of resize on one old chain: detach the head node and
\* push-front it into its bucket of new_table, until the chain is empty.
RECURSIVE rewire_chain(_, _)
rewire_chain(chain, new_table) ==
    IF chain = <<>> THEN new_table
    ELSE LET n == Head(chain)
             idx == hash(n, Len(new_table))
         IN  rewire_chain(Tail(chain), [new_table EXCEPT ![idx + 1] = <<n>> \o @])

\* The for loop of resize over the buckets of table_, from bucket i - 1 on.
RECURSIVE rewire_from(_, _, _)
rewire_from(table, i, new_table) ==
    IF i > Len(table) THEN new_table
    ELSE rewire_from(table, i + 1, rewire_chain(table[i], new_table))

resize(table) ==
    LET new_size == Len(table) * 2
    IN  rewire_from(table, 1, [i \in 1 .. new_size |-> <<>>])

\* insert that links the value in first and resizes afterwards.
insert_then_resize(table, size, data) ==
    [table |-> IF load_exceeded(size, table)
               THEN resize(insert_bucket(data, table))
               ELSE insert_bucket(data, table),
     size  |-> size + 1]

\* The public insert(data): the table and the size it leaves.
insert(table, size, data) ==
    [table |-> insert_bucket(data, IF load_exceeded(size, table) THEN resize(table) ELSE table),
     size  |-> size + 1]

\* The while loop of find from node head on.
RECURSIVE find_from(_, _)
find_from(chain, data) ==
    IF chain = <<>> THEN FALSE
    ELSE IF Head(chain) = data THEN TRUE
    ELSE find_from(Tail(chain), data)

\* find that looks at the head node only.
find_head_only(table, data) ==
    LET head == table[hash(data, Len(table)) + 1]
    IN  IF head = <<>> THEN FALSE ELSE Head(head) = data

find(table, data) ==
    LET head == table[hash(data, Len(table)) + 1]
    IN  IF head = <<>> THEN FALSE ELSE find_from(head, data)

\* The loop of erase with node->next = nullptr for node->next = tmp: the nodes
\* behind the unlinked one are lost.
RECURSIVE erase_next_drops_rest(_, _)
erase_next_drops_rest(chain, data) ==
    IF Len(chain) < 2 THEN [chain |-> chain, removed |-> FALSE]
    ELSE IF chain[2] = data
    THEN [chain |-> <<chain[1]>>, removed |-> TRUE]
    ELSE LET rest == erase_next_drops_rest(Tail(chain), data)
         IN  [chain |-> <<chain[1]>> \o rest.chain, removed |-> rest.removed]

\* The while loop of erase: chain starts at node, which is not a match; the
\* chain it leaves and whether a node was unlinked.
RECURSIVE erase_next(_, _)
erase_next(chain, data) ==
    IF Len(chain) < 2 THEN [chain |-> chain, removed |-> FALSE]
    ELSE IF chain[2] = data
    THEN [chain |-> <<chain[1]>> \o Tail(Tail(chain)), removed |-> TRUE]
    ELSE LET rest == erase_next(Tail(chain), data)
         IN  [chain |-> <<chain[1]>> \o rest.chain, removed |-> rest.removed]

\* erase without the --size_ of its loop.
erase_loop_keeps_size(table, size, data) ==
    LET b == hash(data, Len(table)) + 1
        node == table[b]
    IN  IF node = <<>> THEN [table |-> table, size |-> size]
        ELSE IF Head(node) = data
        THEN [table |-> [table EXCEPT ![b] = Tail(node)], size |-> size - 1]
        ELSE [table |-> [table EXCEPT ![b] = erase_next(node, data).chain], size |-> size]

\* erase with the --size_ of its loop placed behind the loop: the size drops
\* whether or not a node was unlinked.
erase_loop_always_decrements(table, size, data) ==
    LET b == hash(data, Len(table)) + 1
        node == table[b]
    IN  IF node = <<>> THEN [table |-> table, size |-> size]
        ELSE IF Head(node) = data
        THEN [table |-> [table EXCEPT ![b] = Tail(node)], size |-> size - 1]
        ELSE [table |-> [table EXCEPT ![b] = erase_next(node, data).chain],
              size  |-> size - 1]

\* erase(data): the table and the size it leaves.
erase(table, size, data) ==
    LET b == hash(data, Len(table)) + 1
        node == table[b]
    IN  IF node = <<>> THEN [table |-> table, size |-> size]
        ELSE IF Head(node) = data
        THEN [table |-> [table EXCEPT ![b] = Tail(node)], size |-> size - 1]
        ELSE LET r == erase_next(node, data)
             IN  [table |-> [table EXCEPT ![b] = r.chain],
                  size  |-> IF r.removed THEN size - 1 ELSE size]

\* The constructor without the clamp: table_(cap, nullptr).
construct_unclamped(cap) ==
    [table |-> [i \in 1 .. cap |-> <<>>], size |-> 0]

\* HashTable(cap): size_(0), table_(std::max(cap, 10), nullptr).
construct(cap) ==
    [table |-> [i \in 1 .. (IF cap > 10 THEN cap ELSE 10) |-> <<>>], size |-> 0]

\* ------------------------------------------- hash: one call on a fresh table

VARIABLES
    f_data,   \* the value hashed and inserted
    f_cap,    \* the capacity the table was constructed for
    f_pc,     \* "start", "hashed" (hash was called), "found" (insert, then find)
    f_idx,    \* what hash(f_data, table_.size()) returned
    f_found   \* what find(f_data) returned after insert(f_data)

fvars == <<f_data, f_cap, f_pc, f_idx, f_found>>

\* Nothing has been hashed.
FnIdle(data, cap) ==
    /\ f_data = data
    /\ f_cap = cap
    /\ f_pc = "start"
    /\ f_idx = 0
    /\ f_found = FALSE

\* ------------------------------------------- avl.c with its nodes in memory

VARIABLES
    p_heap,   \* the Node objects malloc has returned so far: address a is
              \* position a, and malloc never hands an address out twice
    p_root,   \* main's root pointer
    p_freed,  \* the addresses passed to free, in order
    p_pc,     \* "running", or "torn" after free_tree(root)
    p_mark    \* Len(p_freed) when free_tree was called

pvars == <<p_heap, p_root, p_freed, p_pc, p_mark>>

NULL == 0

node_height(h, node) == IF node # NULL THEN h[node].height ELSE 0

node_balance(h, node) ==
    IF node # NULL
    THEN node_height(h, h[node].left) - node_height(h, h[node].right)
    ELSE 0

node_update_height(h, node) ==
    IF node # NULL
    THEN [h EXCEPT ![node].height =
             1 + max_int(node_height(h, h[node].left), node_height(h, h[node].right))]
    ELSE h

\* The rotations on the memory h: the new memory and the pointer returned.
node_right_rotate(h, node) ==
    LET r0 == h[node].left
        node_left == h[r0].right
        h1 == [h EXCEPT ![node].left = node_left, ![r0].right = node]
    IN  [heap |-> node_update_height(node_update_height(h1, node), r0), ret |-> r0]

node_left_rotate(h, node) ==
    LET r0 == h[node].right
        node_right == h[r0].left
        h1 == [h EXCEPT ![node].right = node_right, ![r0].left = node]
    IN  [heap |-> node_update_height(node_update_height(h1, node), r0), ret |-> r0]

RECURSIVE node_find_successor(_, _)
node_find_successor(h, current) ==
    IF current # NULL /\ h[current].left # NULL
    THEN node_find_successor(h, h[current].left)
    ELSE current

\* insert_node from update_height(node) on.
node_insert_rebalance(h0, node, val) ==
    LET h == node_update_height(h0, node)
        balance == node_balance(h, node)
    IN  IF balance > 1 /\ val < h[h[node].left].val THEN node_right_rotate(h, node)
        ELSE IF balance < -1 /\ val > h[h[node].right].val THEN node_left_rotate(h, node)
        ELSE IF balance > 1 /\ val > h[h[node].left].val
        THEN LET r == node_left_rotate(h, h[node].left)
             IN  node_right_rotate([r.heap EXCEPT ![node].left = r.ret], node)
        ELSE IF balance < -1 /\ val < h[h[node].right].val
        THEN LET r == node_right_rotate(h, h[node].right)
             IN  node_left_rotate([r.heap EXCEPT ![node].right = r.ret], node)
        ELSE [heap |-> h, ret |-> node]

RECURSIVE node_insert(_, _, _)
node_insert(h, node, val) ==
    IF node = NULL
    THEN [heap |-> Append(h, [val |-> val, left |-> NULL, right |-> NULL, height |-> 1]),
          ret |-> Len(h) + 1]
    ELSE IF val < h[node].val
    THEN LET r == node_insert(h, h[node].left, val)
         IN  node_insert_rebalance([r.heap EXCEPT ![node].left = r.ret], node, val)
    ELSE IF val > h[node].val
    THEN LET r == node_insert(h, h[node].right, val)
         IN  node_insert_rebalance([r.heap EXCEPT ![node].right = r.ret], node, val)
    ELSE [heap |-> h, ret |-> node]

\* delete_node from update_height(node) on; fr is the list of freed addresses.
node_delete_rebalance(h0, fr, node) ==
    LET h == node_update_height(h0, node)
        balance == node_balance(h, node)
        done(r) == [heap |-> r.heap, freed |-> fr, ret |-> r.ret]
    IN  IF balance > 1 /\ node_balance(h, h[node].left) >= 0
        THEN done(node_right_rotate(h, node))
        ELSE IF balance < -1 /\ node_balance(h, h[node].right) <= 0
        THEN done(node_left_rotate(h, node))
        ELSE IF balance > 1 /\ node_balance(h, h[node].left) < 0
        THEN LET r == node_left_rotate(h, h[node].left)
             IN  done(node_right_rotate([r.heap EXCEPT ![node].left = r.ret], node))
        ELSE IF balance < -1 /\ node_balance(h, h[node].right) > 0
        THEN LET r == node_right_rotate(h, h[node].right)
             IN  done(node_left_rotate([r.heap EXCEPT ![node].right = r.ret], node))
        ELSE [heap |-> h, freed |-> fr, ret |-> node]

\* delete_node without the free(node) of the case of no left child.
RECURSIVE node_delete_leaks(_, _, _, _)
node_delete_leaks(h, fr, node, val) ==
    IF node = NULL THEN [heap |-> h, freed |-> fr, ret |-> NULL]
    ELSE IF val < h[node].val
    THEN LET r == node_delete_leaks(h, fr, h[node].left, val)
         IN  node_delete_rebalance([r.heap EXCEPT ![node].left = r.ret], r.freed, node)
    ELSE IF val > h[node].val
    THEN LET r == node_delete_leaks(h, fr, h[node].right, val)
         IN  node_delete_rebalance([r.heap EXCEPT ![node].right = r.ret], r.freed, node)
    ELSE IF h[node].left = NULL
    THEN [heap |-> h, freed |-> fr, ret |-> h[node].right]
    ELSE IF h[node].right = NULL
    THEN [heap |-> h, freed |-> Append(fr, node), ret |-> h[node].left]
    ELSE LET temp == node_find_successor(h, h[node].right)
             h1 == [h EXCEPT ![node].val = h[temp].val]
             r == node_delete_leaks(h1, fr, h1[node].right, h1[temp].val)
         IN  node_delete_rebalance([r.heap EXCEPT ![node].right = r.ret], r.freed, node)

RECURSIVE node_delete(_, _, _, _)
node_delete(h, fr, node, val) ==
    IF node = NULL THEN [heap |-> h, freed |-> fr, ret |-> NULL]
    ELSE IF val < h[node].val
    THEN LET r == node_delete(h, fr, h[node].left, val)
         IN  node_delete_rebalance([r.heap EXCEPT ![node].left = r.ret], r.freed, node)
    ELSE IF val > h[node].val
    THEN LET r == node_delete(h, fr, h[node].right, val)
         IN  node_delete_rebalance([r.heap EXCEPT ![node].right = r.ret], r.freed, node)
    ELSE IF h[node].left = NULL
    THEN [heap |-> h, freed |-> Append(fr, node), ret |-> h[node].right]
    ELSE IF h[node].right = NULL
    THEN [heap |-> h, freed |-> Append(fr, node), ret |-> h[node].left]
    ELSE LET temp == node_find_successor(h, h[node].right)
             h1 == [h EXCEPT ![node].val = h[temp].val]
             r == node_delete(h1, fr, h1[node].right, h1[temp].val)
         IN  node_delete_rebalance([r.heap EXCEPT ![node].right = r.ret], r.freed, node)

\* free_tree: the list of freed addresses after the call.
RECURSIVE node_free_tree(_, _, _)
node_free_tree(h, fr, node) ==
    IF node # NULL
    THEN Append(node_free_tree(h, node_free_tree(h, fr, h[node].left), h[node].right), node)
    ELSE fr

\* The content of a freed object is indeterminate: once the call that freed it
\* has returned, one value stands for it.
Indeterminate == [val |-> 0, left |-> NULL, right |-> NULL, height |-> 0]

Released(h, fr) ==
    [a \in 1 .. Len(h) |-> IF \E i \in 1 .. Len(fr) : fr[i] = a THEN Indeterminate ELSE h[a]]

\* main before its first call: root is NULL, nothing allocated.
HeapIdle ==
    /\ p_heap = <<>>
    /\ p_root = NULL
    /\ p_freed = <<>>
    /\ p_pc = "running"
    /\ p_mark = 0

VARIABLES
    sc_log    \* main of avl.c: the values of its insert_node calls so far

\* ------------------------------------------------------------- bfs_graph

VARIABLES
    g_adj,    \* the graph: node -> its vector N of neighbours
    g_root,   \* the argument of bfs_graph (NullNode: nullptr)
    g_pc,     \* "build" (not called yet), "loop" (in the while loop) or "done"
    g_seen,   \* std::set<Node*> seen
    g_q,      \* std::queue<Node*> q, front first
    g_out     \* the nodes whose val has been printed, in order

gvars == <<g_adj, g_root, g_pc, g_seen, g_q, g_out>>

NullNode == 0

\* The for loop over curr->N: every neighbour not yet seen is pushed and marked.
RECURSIVE visit_neighbours(_, _, _)
visit_neighbours(N, q, seen) ==
    IF N = <<>> THEN [q |-> q, seen |-> seen]
    ELSE LET next == Head(N)
         IN  IF next \notin seen
             THEN visit_neighbours(Tail(N), Append(q, next), seen \cup {next})
             ELSE visit_neighbours(Tail(N), q, seen)

\* The for loop without seen.insert(next): pushed nodes are not marked.
RECURSIVE push_unseen(_, _, _)
push_unseen(N, q, seen) ==
    IF N = <<>> THEN q
    ELSE IF Head(N) \notin seen
    THEN push_unseen(Tail(N), Append(q, Head(N)), seen)
    ELSE push_unseen(Tail(N), q, seen)

\* No graph yet, bfs_graph not called.
BfsIdle ==
    /\ g_adj = [n \in GNodes |-> <<>>]
    /\ g_root = NullNode
    /\ g_pc = "build"
    /\ g_seen = {}
    /\ g_q = <<>>
    /\ g_out = <<>>

\* The number of neighbour entries of the graph.
RECURSIVE EdgeCount(_, _)
EdgeCount(adj, S) ==
    IF S = {} THEN 0
    ELSE LET n == CHOOSE x \in S : TRUE
         IN  Len(adj[n]) + EdgeCount(adj, S \ {n})

\* The variables of the other programs of the module.
others == <<fvars, sc_log, gvars, pvars>>

\* ------------------------------------------------- AVL tree: the state machine

\* main of avl.c: Node* root = NULL.
TreeEmpty ==
    /\ root = Nil
    /\ keys = {}
    /\ t_op = "init"
    /\ t_val = 0
    /\ t_prev = Nil

\* A table as HashTable(cap) leaves it.
TableNew(cap) ==
    /\ table_ = construct(cap).table
    /\ size_ = construct(cap).size
    /\ cap_req = cap
    /\ ref = [v \in HVals |-> 0]
    /\ h_op = "init"
    /\ h_arg = 0
    /\ h_ret = FALSE
    /\ h_table = construct(cap).table
    /\ h_size = 0

hvars == <<size_, table_, cap_req, ref, h_op, h_arg, h_ret, h_table, h_size>>

TreeInit ==
    TreeEmpty /\ TableNew(10) /\ FnIdle(0, 10) /\ sc_log = <<>> /\ BfsIdle /\ HeapIdle

\* root = insert_node(root, v)
TreeInsert(v) ==
    /\ root' = insert_node(root, v)
    /\ keys' = keys \cup {v}
    /\ t_op' = "insert"
    /\ t_val' = v
    /\ t_prev' = root
    /\ UNCHANGED hvars
    /\ UNCHANGED others

\* root = delete_node(root, v)
TreeDelete(v) ==
    /\ root' = delete_node(root, v)
    /\ keys' = keys \ {v}
    /\ t_op' = "delete"
    /\ t_val' = v
    /\ t_prev' = root
    /\ UNCHANGED hvars
    /\ UNCHANGED others

tvars == <<root, keys, t_op, t_val, t_prev>>

TreeNext ==
    \/ \E v \in Vals : TreeInsert(v)
    \/ \E v \in Vals : TreeDelete(v)

vars == <<tvars, hvars, others>>

SpecAVL == TreeInit /\ [][TreeNext]_vars

\* ------------------------------------------------- hash table: the state machine

HashInit ==
    TreeEmpty /\ FnIdle(0, 10) /\ sc_log = <<>> /\ BfsIdle /\ HeapIdle /\ \E cap \in InitCaps : TableNew(cap)

\* ht.insert(v)
HtInsert(v) ==
    /\ size_ < MaxSize
    /\ table_' = insert(table_, size_, v).table
    /\ size_' = insert(table_, size_, v).size
    /\ ref' = [ref EXCEPT ![v] = @ + 1]
    /\ h_op' = "insert"
    /\ h_arg' = v
    /\ h_table' = table_
    /\ h_size' = size_
    /\ UNCHANGED <<cap_req, h_ret>>
    /\ UNCHANGED tvars
    /\ UNCHANGED others

\* ht.find(v)
HtFind(v) ==
    /\ h_ret' = find(table_, v)
    /\ h_op' = "find"
    /\ h_arg' = v
    /\ h_table' = table_
    /\ h_size' = size_
    /\ UNCHANGED <<table_, size_, cap_req, ref>>
    /\ UNCHANGED tvars
    /\ UNCHANGED others

\* ht.erase(v)
HtErase(v) ==
    /\ table_' = erase(table_, size_, v).table
    /\ size_' = erase(table_, size_, v).size
    /\ ref' = [ref EXCEPT ![v] = IF @ > 0 THEN @ - 1 ELSE @]
    /\ h_op' = "erase"
    /\ h_arg' = v
    /\ h_table' = table_
    /\ h_size' = size_
    /\ UNCHANGED <<cap_req, h_ret>>
    /\ UNCHANGED tvars
    /\ UNCHANGED others

HashNext ==
    \/ \E v \in HVals : HtInsert(v)
    \/ \E v \in HVals : HtFind(v)
    \/ \E v \in HVals : HtErase(v)

SpecHash == HashInit /\ [][HashNext]_vars

\* ------------------------------- hash: one call on a fresh table, the steps

FnInit ==
    /\ TreeEmpty
    /\ sc_log = <<>>
    /\ BfsIdle
    /\ HeapIdle
    /\ TableNew(10)
    /\ \E data \in FData, cap \in FCaps : FnIdle(data, cap)

\* hash(f_data, table_.size()) on the table HashTable(f_cap) leaves.
FnHash ==
    /\ f_pc = "start"
    /\ f_idx' = hash(f_data, Len(construct(f_cap).table))
    /\ f_pc' = "hashed"
    /\ UNCHANGED <<f_data, f_cap, f_found>>
    /\ UNCHANGED <<tvars, hvars, sc_log, gvars, pvars>>

\* HashTable ht(f_cap); ht.insert(f_data); ht.find(f_data).
FnInsertFind ==
    /\ f_pc = "hashed"
    /\ f_found' = find(insert(construct(f_cap).table, construct(f_cap).size, f_data).table,
                       f_data)
    /\ f_pc' = "found"
    /\ UNCHANGED <<f_data, f_cap, f_idx>>
    /\ UNCHANGED <<tvars, hvars, sc_log, gvars, pvars>>

FnNext == FnHash \/ FnInsertFind

SpecHashFn == FnInit /\ [][FnNext]_vars

\* ------------------------------------------------- main of avl.c, its calls

MainInit == TreeInit

\* root = insert_node(root, v), one of the first ScInserts calls of main.
MainInsert(v) ==
    /\ t_op # "delete"
    /\ Len(sc_log) < ScInserts
    /\ root' = insert_node(root, v)
    /\ keys' = keys \cup {v}
    /\ t_op' = "insert"
    /\ t_val' = v
    /\ t_prev' = root
    /\ sc_log' = Append(sc_log, v)
    /\ UNCHANGED <<hvars, fvars, gvars, pvars>>

\* root = delete_node(root, v), the call of main behind its inserts.
MainDelete(v) ==
    /\ t_op # "delete"
    /\ Len(sc_log) = ScInserts
    /\ root' = delete_node(root, v)
    /\ keys' = keys \ {v}
    /\ t_op' = "delete"
    /\ t_val' = v
    /\ t_prev' = root
    /\ UNCHANGED <<hvars, fvars, sc_log, gvars, pvars>>

MainNext ==
    \/ \E v \in ScVals : MainInsert(v)
    \/ \E v \in ScVals : MainDelete(v)

SpecMain == MainInit /\ [][MainNext]_vars

\* ------------------------------------------------- bfs_graph, its steps

BfsInit == TreeInit

\* The caller adds v to the neighbours of u.
BfsAddEdge(u, v) ==
    /\ g_pc = "build"
    /\ EdgeCount(g_adj, GNodes) < MaxEdges
    /\ g_adj' = [g_adj EXCEPT ![u] = Append(@, v)]
    /\ UNCHANGED <<g_root, g_pc, g_seen, g_q, g_out>>
    /\ UNCHANGED <<tvars, hvars, fvars, sc_log, pvars>>

\* bfs_graph(r) up to its while loop: a null root returns at once, any other
\* is pushed and marked seen.
BfsCall(r) ==
    /\ g_pc = "build"
    /\ g_root' = r
    /\ IF r = NullNode
       THEN /\ g_pc' = "done"
            /\ UNCHANGED <<g_seen, g_q>>
       ELSE /\ g_pc' = "loop"
            /\ g_q' = <<r>>
            /\ g_seen' = {r}
    /\ UNCHANGED <<g_adj, g_out>>
    /\ UNCHANGED <<tvars, hvars, fvars, sc_log, pvars>>

\* One pass of the while loop with the node marked seen when it is popped, not
\* when it is pushed.
BfsIterate_marks_at_pop ==
    /\ g_pc = "loop"
    /\ g_q # <<>>
    /\ LET curr == Head(g_q)
       IN  /\ g_out' = Append(g_out, curr)
           /\ g_seen' = g_seen \cup {curr}
           /\ g_q' = push_unseen(g_adj[curr], Tail(g_q), g_seen \cup {curr})
    /\ UNCHANGED <<g_adj, g_root, g_pc>>
    /\ UNCHANGED <<tvars, hvars, fvars, sc_log, pvars>>

\* One pass of the while loop: pop the front, print it, visit its neighbours.
BfsIterate ==
    /\ g_pc = "loop"
    /\ g_q # <<>>
    /\ LET curr == Head(g_q)
           r == visit_neighbours(g_adj[curr], Tail(g_q), g_seen)
       IN  /\ g_out' = Append(g_out, curr)
           /\ g_q' = r.q
           /\ g_seen' = r.seen
    /\ UNCHANGED <<g_adj, g_root, g_pc>>
    /\ UNCHANGED <<tvars, hvars, fvars, sc_log, pvars>>

\* The while loop finds the queue empty and bfs_graph returns.
BfsReturn ==
    /\ g_pc = "loop"
    /\ g_q = <<>>
    /\ g_pc' = "done"
    /\ UNCHANGED <<g_adj, g_root, g_seen, g_q, g_out>>
    /\ UNCHANGED <<tvars, hvars, fvars, sc_log, pvars>>

BfsNext ==
    \/ \E u \in GNodes, v \in GNodes : BfsAddEdge(u, v)
    \/ \E r \in GNodes \cup {NullNode} : BfsCall(r)
    \/ BfsIterate
    \/ BfsReturn

\* bfs_graph runs on one thread with nothing to wait for: a pass of the loop or
\* the return that can be taken is taken.
SpecBfs == BfsInit /\ [][BfsNext]_vars /\ WF_vars(BfsIterate) /\ WF_vars(BfsReturn)

\* ------------------------------------- avl.c with its nodes in memory, its calls

HeapInit == TreeInit

\* root = insert_node(root, v)
HeapInsert(v) ==
    /\ p_pc = "running"
    /\ Len(p_heap) < MaxAlloc
    /\ LET r == node_insert(p_heap, p_root, v)
       IN  /\ p_heap' = r.heap
           /\ p_root' = r.ret
    /\ UNCHANGED <<p_freed, p_pc, p_mark>>
    /\ UNCHANGED <<tvars, hvars, fvars, sc_log, gvars>>

\* root = delete_node(root, v)
HeapDelete(v) ==
    /\ p_pc = "running"
    /\ LET r == node_delete(p_heap, p_freed, p_root, v)
       IN  /\ p_heap' = Released(r.heap, r.freed)
           /\ p_root' = r.ret
           /\ p_freed' = r.freed
    /\ UNCHANGED <<p_pc, p_mark>>
    /\ UNCHANGED <<tvars, hvars, fvars, sc_log, gvars>>

\* free_tree(root), main's last call.
HeapFreeTree ==
    /\ p_pc = "running"
    /\ p_freed' = node_free_tree(p_heap, p_freed, p_root)
    /\ p_mark' = Len(p_freed)
    /\ p_pc' = "torn"
    /\ UNCHANGED <<p_heap, p_root>>
    /\ UNCHANGED <<tvars, hvars, fvars, sc_log, gvars>>

HeapNext ==
    \/ \E v \in PVals : HeapInsert(v)
    \/ \E v \in PVals : HeapDelete(v)
    \/ HeapFreeTree

SpecHeap == HeapInit /\ [][HeapNext]_vars

\* ------------------------------------------------- AVL tree: what is measured

\* The nodes of a tree, each as the subtree it roots.
RECURSIVE Nodes(_)
Nodes(node) ==
    IF node = Nil THEN {} ELSE {node} \cup Nodes(Left(node)) \cup Nodes(Right(node))

\* The values stored in a tree.
RECURSIVE Values(_)
Values(node) ==
    IF node = Nil THEN {} ELSE {Val(node)} \cup Values(Left(node)) \cup Values(Right(node))

\* The true height of a subtree, computed from its shape (0 for an absent child).
RECURSIVE TrueHeight(_)
TrueHeight(node) ==
    IF node = Nil THEN 0
    ELSE 1 + max_int(TrueHeight(Left(node)), TrueHeight(Right(node)))

Abs(x) == IF x < 0 THEN -x ELSE x

\* The strictly ascending listing of a finite set of integers.
RECURSIVE Ascending(_)
Ascending(S) ==
    IF S = {} THEN <<>>
    ELSE LET m == CHOOSE x \in S : \A y \in S : x <= y
         IN  <<m>> \o Ascending(S \ {m})


\* ------------------------------------------------- AVL tree: the claims

\* C1: after every insert_node or delete_node call, at every node of the tree
\* the true heights of the left and the right subtree differ by at most 1.
C1_Balanced ==
    \A n \in Nodes(root) : Abs(TrueHeight(Left(n)) - TrueHeight(Right(n))) <= 1

\* A delete of a present key other than the root's has rotated at the root of a
\* tree of height at least 3.
C1_Witness ==
    /\ t_op = "delete"
    /\ t_val \in Values(t_prev)
    /\ TrueHeight(t_prev) >= 3
    /\ root # Nil
    /\ t_val # Val(t_prev)
    /\ Val(root) # Val(t_prev)

\* C2: after every insert_node or delete_node call, at every node the values of
\* the left subtree are strictly less and the values of the right subtree are
\* strictly greater than the node's value.
C2_SearchTree ==
    \A n \in Nodes(root) :
        /\ \A x \in Values(Left(n)) : x < Val(n)
        /\ \A x \in Values(Right(n)) : x > Val(n)

\* A delete of the root's key, the root having two children and its successor
\* lying below the right child: the successor's value was copied up.
C2_Witness ==
    /\ t_op = "delete"
    /\ t_prev # Nil
    /\ t_val = Val(t_prev)
    /\ Left(t_prev) # Nil
    /\ Right(t_prev) # Nil
    /\ Left(Right(t_prev)) # Nil
    /\ root # Nil

\* C3: after every insert_node or delete_node call, every node's stored height
\* is 1 + max of its children's stored heights (0 for an absent child) and is
\* the true height of its subtree.
C3_HeightCache ==
    \A n \in Nodes(root) :
        /\ Ht(n) = 1 + max_int(height_node(Left(n)), height_node(Right(n)))
        /\ Ht(n) = TrueHeight(n)

\* An insert of a new key into a tree of height 3 after which the root is the
\* old root's left child's right child: a left rotation at the left child and
\* a right rotation at the root (a double rotation) moved it there.
C3_Witness ==
    /\ t_op = "insert"
    /\ t_val \notin Values(t_prev)
    /\ TrueHeight(t_prev) >= 3
    /\ Left(t_prev) # Nil
    /\ Right(Left(t_prev)) # Nil
    /\ Val(root) = Val(Right(Left(t_prev)))

\* C4: the values inorder visits are the strictly ascending listing of the
\* reference set, after every insert_node or delete_node call.
C4_InorderIsSet ==
    inorder(root) = Ascending(keys)

\* A present key was deleted from a tree of at least four keys, and is no
\* longer visited while the others are.
C4_Witness ==
    /\ t_op = "delete"
    /\ t_val \in Values(t_prev)
    /\ Cardinality(keys) >= 3
    /\ \A i \in 1 .. Len(inorder(root)) : inorder(root)[i] # t_val
    /\ Len(inorder(root)) = Len(inorder(t_prev)) - 1

\* C12: insert_node of a value that is already a key returns the tree it was
\* given: same shape, same values, same stored heights.
C12_DuplicateInsert ==
    (t_op = "insert" /\ t_val \in Values(t_prev)) =>
        root = t_prev

\* A key lying at least two levels below the root of a tree of height at least
\* 3 was inserted again.
C12_Witness ==
    /\ t_op = "insert"
    /\ TrueHeight(t_prev) >= 3
    /\ t_val \in Values(t_prev)
    /\ t_val # Val(t_prev)
    /\ \A c \in {Left(t_prev), Right(t_prev)} : c # Nil => t_val # Val(c)

\* C13: delete_node of a value that is not a key returns the tree it was given:
\* same shape, same values, same stored heights.
C13_DeleteAbsent ==
    (t_op = "delete" /\ t_val \notin Values(t_prev)) =>
        root = t_prev

\* An absent value was deleted from a tree of height at least 3 that leans to
\* one side at the root.
C13_Witness ==
    /\ t_op = "delete"
    /\ t_val \notin Values(t_prev)
    /\ TrueHeight(t_prev) >= 3
    /\ get_balance(t_prev) # 0

\* The node insert_node hands to its rebalancing cases at the root of tree, val
\* having been inserted below it: the child replaced, the height updated.
AtRootBeforeRebalance(tree, val) ==
    IF val < Val(tree)
    THEN update_height(Mk(Val(tree), insert_node(Left(tree), val), Right(tree), Ht(tree)))
    ELSE update_height(Mk(Val(tree), Left(tree), insert_node(Right(tree), val), Ht(tree)))

\* C16 as claimed: after the inserts 10, 20, 30 the old root 10 was unbalanced
\* and repaired by a right rotation, and the root is 20; after the insert of 40
\* the root is still 20 and inorder yields 10 20 30 40.
C16_Original ==
    /\ (t_op = "insert" /\ sc_log = <<10, 20, 30>>) =>
          /\ Val(t_prev) = 10
          /\ Abs(get_balance(AtRootBeforeRebalance(t_prev, 30))) > 1
          /\ insert_case(AtRootBeforeRebalance(t_prev, 30), 30) = "right_rotate"
          /\ Val(root) = 20
    /\ (t_op = "insert" /\ sc_log = <<10, 20, 30, 40>>) =>
          /\ Val(root) = 20
          /\ inorder(root) = <<10, 20, 30, 40>>

\* C16 amended: after the inserts 10, 20, 30 the old root 10 was unbalanced
\* (balance -2) and repaired by a left rotation (left_rotate at 10), and the
\* root is 20; after the insert of 40 the root is still 20 and inorder yields
\* 10 20 30 40.
C16_Amended ==
    /\ (t_op = "insert" /\ sc_log = <<10, 20, 30>>) =>
          /\ Val(t_prev) = 10
          /\ get_balance(AtRootBeforeRebalance(t_prev, 30)) = -2
          /\ insert_case(AtRootBeforeRebalance(t_prev, 30), 30) = "left_rotate"
          /\ root = left_rotate(AtRootBeforeRebalance(t_prev, 30))
          /\ Val(root) = 20
          /\ inorder(root) = <<10, 20, 30>>
    /\ (t_op = "insert" /\ sc_log = <<10, 20, 30, 40>>) =>
          /\ Val(root) = 20
          /\ inorder(root) = <<10, 20, 30, 40>>

\* main's four inserts have been made.
C16_Witness ==
    /\ t_op = "insert"
    /\ sc_log = <<10, 20, 30, 40>>
    /\ Val(t_prev) = 20
    /\ TrueHeight(root) = 3

\* The four conditions of insert_node's rebalancing cases at node, in the
\* order of the code.
InsertConditions(node, val) ==
    LET balance == get_balance(node)
    IN  << balance > 1 /\ val < Val(Left(node)),
           balance < -1 /\ val > Val(Right(node)),
           balance > 1 /\ val > Val(Left(node)),
           balance < -1 /\ val < Val(Right(node)) >>

\* What the named rebalancing action makes of node.
Rebalanced(case, node) ==
    IF case = "right_rotate" THEN right_rotate(node)
    ELSE IF case = "left_rotate" THEN left_rotate(node)
    ELSE IF case = "left_then_right_rotate"
    THEN right_rotate(Mk(Val(node), left_rotate(Left(node)), Right(node), Ht(node)))
    ELSE IF case = "right_then_left_rotate"
    THEN left_rotate(Mk(Val(node), Left(node), right_rotate(Right(node)), Ht(node)))
    ELSE node

\* C19: one insert_node call rebalances (by a single or a double rotation) at
\* no more than one node of the search path; where the balance is within
\* [-1, 1] none of the four cases fires, and where it is not exactly one of the
\* four conditions holds and its action is what insert_node returns there.
C19_OneRebalance ==
    t_op = "insert" =>
        LET P == insert_path(t_prev, t_val)
            fired == {i \in 1 .. Len(P) : insert_case(P[i], t_val) # "none"}
        IN  /\ Cardinality(fired) <= 1
            /\ \A i \in 1 .. Len(P) :
                  LET c == InsertConditions(P[i], t_val)
                      holding == {k \in 1 .. 4 : c[k]}
                  IN  /\ Abs(get_balance(P[i])) <= 1 => holding = {}
                      /\ Abs(get_balance(P[i])) > 1 => Cardinality(holding) = 1
                      /\ (holding = {}) <=> (i \notin fired)
                      /\ insert_rebalance(P[i], t_val)
                            = Rebalanced(insert_case(P[i], t_val), P[i])
            /\ Len(P) > 0 => root = insert_rebalance(P[1], t_val)

\* An insert into a tree of height at least 3 rebalanced by a double rotation
\* at a node below the root, with balanced ancestors above it.
C19_Witness ==
    /\ t_op = "insert"
    /\ TrueHeight(t_prev) >= 3
    /\ LET P == insert_path(t_prev, t_val)
       IN  /\ Len(P) >= 2
           /\ insert_case(P[1], t_val) = "none"
           /\ \E i \in 2 .. Len(P) :
                 insert_case(P[i], t_val) \in {"left_then_right_rotate", "right_then_left_rotate"}

\* ------------------------------------------------- hash table: what is measured

\* The number of nodes of a chain that hold v.
InChain(chain, v) == Cardinality({i \in 1 .. Len(chain) : chain[i] = v})

\* The number of nodes of the whole table that hold v, whatever their bucket.
RECURSIVE CountFrom(_, _, _)
CountFrom(table, i, v) ==
    IF i > Len(table) THEN 0 ELSE InChain(table[i], v) + CountFrom(table, i + 1, v)

Count(table, v) == CountFrom(table, 1, v)

\* The sum of the lengths of all chains.
RECURSIVE NodesFrom(_, _)
NodesFrom(table, i) ==
    IF i > Len(table) THEN 0 ELSE Len(table[i]) + NodesFrom(table, i + 1)

TotalNodes(table) == NodesFrom(table, 1)

\* The cardinality of the reference multiset.
RECURSIVE BagSize(_, _)
BagSize(bag, S) ==
    IF S = {} THEN 0
    ELSE LET v == CHOOSE x \in S : TRUE
         IN  bag[v] + BagSize(bag, S \ {v})

\* The values stored anywhere in a table.
Stored(table) == {table[i][j] : <<i, j>> \in {p \in (1 .. Len(table)) \X (1 .. MaxSize + 1) :
                                                 p[2] <= Len(table[p[1]])}}

\* The last call was an insert that found the load factor above 0.5.
InsertOverLoad == h_op = "insert" /\ 2 * h_size > Len(h_table)

\* ------------------------------------------------- hash table: the claims

\* C5: the table is a multiset: find(v) is true iff v was inserted more often
\* than it was erased while present, size() is the multiset's cardinality, and
\* a find call returns that answer and changes neither table_ nor size_.
C5_Multiset ==
    /\ \A v \in HVals : find(table_, v) <=> ref[v] > 0
    /\ size_ = BagSize(ref, HVals)
    /\ h_op = "find" =>
          /\ h_ret <=> ref[h_arg] > 0
          /\ table_ = h_table
          /\ size_ = h_size

\* find returned true for a value stored twice, after a resize and an erase.
C5_Witness ==
    /\ h_op = "find"
    /\ h_ret
    /\ ref[h_arg] >= 2
    /\ Len(table_) = 20
    /\ size_ < 6
    /\ \E u \in HVals : ref[u] = 0

\* C6: size_ is the sum of the lengths of all chains in every reachable state,
\* and resize leaves the number of nodes unchanged (it does not touch size_).
C6_SizeIsNodeCount ==
    /\ size_ = TotalNodes(table_)
    /\ TotalNodes(resize(table_)) = TotalNodes(table_)
    /\ InsertOverLoad => TotalNodes(table_) = TotalNodes(h_table) + 1

\* An erase unlinked an interior node of a chain of a resized table.
C6_Witness ==
    /\ h_op = "erase"
    /\ size_ = h_size - 1
    /\ Len(table_) = 20
    /\ h_table[hash(h_arg, 20) + 1] # <<>>
    /\ Head(h_table[hash(h_arg, 20) + 1]) # h_arg

\* C7: every node lies in the chain of bucket hash(its value, current
\* capacity), after every operation and in particular after every resize.
C7_Placement ==
    \A b \in 1 .. Len(table_) :
        \A i \in 1 .. Len(table_[b]) :
            hash(table_[b][i], Len(table_)) + 1 = b

\* An insert resized a table holding a value whose bucket index differs under
\* the old and the new capacity.
C7_Witness ==
    /\ InsertOverLoad
    /\ Len(table_) = 2 * Len(h_table)
    /\ \E v \in Stored(h_table) : hash(v, Len(h_table)) # hash(v, Len(table_))

\* C8 as claimed: whenever (size + 1) / capacity > 0.5 when insert is called,
\* the table doubles its capacity.
C8_Original ==
    (h_op = "insert" /\ 2 * (h_size + 1) > Len(h_table)) =>
        Len(table_) = 2 * Len(h_table)

\* C8 amended: whenever size / capacity > 0.5 when insert is called (the load
\* of the elements already stored, the pending one not counted), the table
\* doubles its capacity and rehashes before the element is added: the new
\* element is the head of its chain and the rest is the rehashed old table.
C8_Amended ==
    InsertOverLoad =>
        LET b == hash(h_arg, 2 * Len(h_table)) + 1
        IN  /\ Len(table_) = 2 * Len(h_table)
            /\ table_[b] # <<>>
            /\ Head(table_[b]) = h_arg
            /\ [table_ EXCEPT ![b] = Tail(@)] = resize(h_table)

\* An insert found 6 elements in 10 buckets, two values among them.
C8_Witness ==
    /\ InsertOverLoad
    /\ Len(h_table) = 10
    /\ Cardinality(Stored(h_table)) = 2
    /\ Len(table_) = 20

\* C9: an insert that finds size / capacity > 0.5 leaves exactly twice the
\* capacity and links the value in after the resize (at the head of its chain
\* of the doubled table, in front of every rehashed node); an insert that
\* finds size / capacity <= 0.5 leaves the capacity unchanged.
C9_PreInsertCheck ==
    h_op = "insert" =>
        IF 2 * h_size > Len(h_table)
        THEN /\ Len(table_) = 2 * Len(h_table)
             /\ LET chain == table_[hash(h_arg, Len(table_)) + 1]
                IN  /\ chain # <<>>
                    /\ Head(chain) = h_arg
                    /\ Len(chain) = 1 + Len(resize(h_table)[hash(h_arg, Len(table_)) + 1])
        ELSE Len(table_) = Len(h_table)

\* An insert resized from 20 to 40 buckets.
C9_Witness ==
    /\ InsertOverLoad
    /\ Len(h_table) = 20
    /\ Len(table_) = 40
    /\ size_ = 12

\* C10: erase(v) with v stored k >= 1 times leaves v stored k - 1 times, size()
\* one less and every other value's multiplicity unchanged; with k >= 2, find(v)
\* is still true.
C10_EraseOne ==
    (h_op = "erase" /\ Count(h_table, h_arg) >= 1) =>
        /\ Count(table_, h_arg) = Count(h_table, h_arg) - 1
        /\ size_ = h_size - 1
        /\ \A u \in HVals \ {h_arg} : Count(table_, u) = Count(h_table, u)
        /\ Count(h_table, h_arg) >= 2 => find(table_, h_arg)

\* erase unlinked an interior node holding a value stored at least twice, the
\* chain holding another value too.
C10_Witness ==
    /\ h_op = "erase"
    /\ Count(h_table, h_arg) >= 2
    /\ Head(h_table[hash(h_arg, Len(h_table)) + 1]) # h_arg
    /\ size_ = h_size - 1

\* C11: erase of a value that is not stored leaves size(), the capacity and
\* every chain (contents and order) as they were, whether the value's bucket is
\* empty or holds only other values.
C11_EraseAbsent ==
    (h_op = "erase" /\ Count(h_table, h_arg) = 0) =>
        /\ size_ = h_size
        /\ Len(table_) = Len(h_table)
        /\ \A b \in 1 .. Len(h_table) : table_[b] = h_table[b]

\* erase was called with a value that is not stored and whose bucket holds two
\* or more nodes of another value.
C11_Witness ==
    /\ h_op = "erase"
    /\ Count(h_table, h_arg) = 0
    /\ Len(h_table[hash(h_arg, Len(h_table)) + 1]) >= 2
    /\ size_ >= 2

\* C14: a table constructed for capacity c starts with max(c, 10) buckets, also
\* for c <= 0; in every reachable state the capacity is at least 10, is not
\* smaller than before the last call, and is the initial capacity times a
\* power of two.
C14_Capacity ==
    LET initial == IF cap_req > 10 THEN cap_req ELSE 10
    IN  /\ h_op = "init" => Len(table_) = initial
        /\ Len(table_) >= 10
        /\ Len(table_) >= Len(h_table)
        /\ Len(h_table) >= initial
        /\ \E k \in 0 .. MaxSize : Len(table_) = initial * 2 ^ k

\* A table asked for with capacity 0 has grown to 40 buckets.
C14_Witness ==
    /\ cap_req <= 0
    /\ Len(table_) = 40
    /\ Len(h_table) = 20

\* C18: in every reachable state 2 * size <= capacity + 2, and the one doubling
\* of an insert that found the load above 0.5 brings the load of the elements
\* already stored to at most 0.5 before the new one is added.
C18_LoadBound ==
    /\ 2 * size_ <= Len(table_) + 2
    /\ InsertOverLoad => 2 * h_size <= Len(table_)

\* The bound is met with equality in a table that has been resized.
C18_Witness ==
    /\ 2 * size_ = Len(table_) + 2
    /\ Len(table_) > Len(construct(cap_req).table)
    /\ h_op = "insert"

\* ------------------------------------------------- hash: the claim

\* C15: for every value, negative, zero or positive, and every capacity
\* K >= 10, hash(value, K) is an index r with 0 <= r < K and r congruent to
\* value modulo K (both leave the same remainder of the floored division by K);
\* a value that was inserted is found.
C15_HashRange ==
    LET K == IF f_cap > 10 THEN f_cap ELSE 10
    IN  /\ f_pc # "start" =>
              /\ 0 <= f_idx
              /\ f_idx < K
              /\ f_idx % K = f_data % K
        /\ f_pc = "found" => f_found

\* A negative value that is no multiple of the capacity was hashed, inserted
\* and found.
C15_Witness ==
    /\ f_pc = "found"
    /\ f_data < 0
    /\ f_idx # 0
    /\ f_cap > 10
    /\ f_found

\* ------------------------------------------------- bfs_graph: the claim

Range(s) == {s[i] : i \in 1 .. Len(s)}

\* The nodes at most k neighbour steps from the root.
RECURSIVE Ball(_)
Ball(k) ==
    IF k = 0 THEN {g_root}
    ELSE Ball(k - 1) \cup UNION {Range(g_adj[u]) : u \in Ball(k - 1)}

\* The nodes reachable from the root.
Reachable == Ball(Cardinality(GNodes))

\* The shortest-path distance of a reachable node from the root.
Dist(n) == CHOOSE k \in 0 .. Cardinality(GNodes) :
               n \in Ball(k) /\ \A j \in 0 .. k - 1 : n \notin Ball(j)

NoRepeats(s) == \A i, j \in 1 .. Len(s) : i # j => s[i] # s[j]

\* What holds of bfs_graph in every state: pushed means marked, no node is in
\* the queue twice or printed twice, printed nodes come in non-decreasing
\* distance from the root, a null root prints nothing, and on return exactly
\* the reachable nodes have been printed.
BfsSafe ==
    /\ NoRepeats(g_out \o g_q)
    /\ Range(g_out) \cup Range(g_q) = g_seen
    /\ g_root # NullNode =>
          /\ g_seen \subseteq Reachable
          /\ \A i, j \in 1 .. Len(g_out \o g_q) :
                i < j => Dist((g_out \o g_q)[i]) <= Dist((g_out \o g_q)[j])
    /\ (g_pc = "done" /\ g_root # NullNode) => Range(g_out) = Reachable
    /\ g_root = NullNode => g_out = <<>>

Children(S) == {p_heap[a].left : a \in S} \cup {p_heap[a].right : a \in S}

RECURSIVE ReachFrom(_, _)
ReachFrom(S, k) ==
    IF k = 0 THEN S ELSE ReachFrom(S \cup (Children(S) \ {NULL}), k - 1)

\* The nodes reachable from root.
ReachableNodes == ReachFrom({p_root} \ {NULL}, Len(p_heap))

\* The number of left and right fields of reachable nodes that point to a.
InPointers(a) ==
    Cardinality({u \in ReachableNodes : p_heap[u].left = a})
        + Cardinality({u \in ReachableNodes : p_heap[u].right = a})

\* The nodes allocated and freed before free_tree was called, and the frees
\* free_tree made.
FreedBefore == {p_freed[i] : i \in 1 .. (IF p_pc = "torn" THEN p_mark ELSE Len(p_freed))}

LiveNodes == (1 .. Len(p_heap)) \ FreedBefore

Teardown == [i \in 1 .. (Len(p_freed) - p_mark) |-> p_freed[p_mark + i]]

\* The position of a in the teardown (0: not freed by it).
FreedAt(a) ==
    IF a \in Range(Teardown) THEN CHOOSE i \in 1 .. Len(Teardown) : Teardown[i] = a ELSE 0

\* C17: the nodes allocated and not freed by the delete_node calls are exactly
\* the nodes reachable from root, the root has no pointer to it and every other
\* reachable node exactly one (so each is reached by one path), no reachable
\* node is freed and none was freed twice; free_tree(root) then frees each of
\* them exactly once, after both of its children.
C17_Ownership ==
    /\ LiveNodes = ReachableNodes
    /\ ReachableNodes \cap FreedBefore = {}
    /\ \A i, j \in 1 .. Len(p_freed) : i # j => p_freed[i] # p_freed[j]
    /\ \A a \in ReachableNodes : InPointers(a) = (IF a = p_root THEN 0 ELSE 1)
    /\ p_pc = "torn" =>
          /\ Range(Teardown) = LiveNodes
          /\ \A a \in LiveNodes :
                \A c \in {p_heap[a].left, p_heap[a].right} \ {NULL} :
                    FreedAt(c) > 0 /\ FreedAt(c) < FreedAt(a)

\* free_tree has torn down a tree of at least three nodes, one of them with two
\* children, whose root is not the node allocated first, after delete_node
\* calls had freed two nodes.
C17_Witness ==
    /\ p_pc = "torn"
    /\ p_mark >= 2
    /\ Len(Teardown) >= 3
    /\ p_root # 1
    /\ \E a \in LiveNodes : p_heap[a].left # NULL /\ p_heap[a].right # NULL

=============================================================================
